---------------------------- MODULE Spec2Model ----------------------------
(***************************************************************************)
(* nLoadOut::getModulePresence (FakeFPGA/ChipObject/niLoadOut.cpp).        *)
(*                                                                         *)
(* The function is a switch over the module type whose branches test the   *)
(* 8-bit module number.  Four specifications are built from the one        *)
(* translation of the switch and of the branch expressions:                *)
(*   Spec      one caller, every module type, every argument 0..MaxArg     *)
(*             (the 8-bit parameter takes every value 0..255);             *)
(*   FairSpec  Spec with the function's own steps weakly fair;             *)
(*   HistSpec  one caller that keeps a log of its completed calls;         *)
(*   ConcSpec  NumCallers callers stepping through the function            *)
(*             interleaved, each in its own activation frame.              *)
(***************************************************************************)
EXTENDS Integers, Sequences, FiniteSets

(* ------------------------------ bounds -------------------------------- *)

\* Largest integer a caller of Spec passes as the module number.
MaxArg == 300

\* Largest integer a caller of HistSpec passes.
MaxHistArg == 2

\* Longest log of completed calls in HistSpec.
MaxCalls == 3

\* Largest integer a caller of ConcSpec passes.
MaxConcArg == 2

\* Number of concurrent callers in ConcSpec.
NumCallers == 2

(* ------------------------- program constants -------------------------- *)

\* uint8_t moduleNumber: the parameter is 8 bits wide.
Width == 8

\* The enumerators the switch names.
kModuleType_Analog == "kModuleType_Analog"

kModuleType_Digital == "kModuleType_Digital"

kModuleType_Solenoid == "kModuleType_Solenoid"

\* Values a tModuleType object can hold that no case label names: another
\* enumerator of the type, and an integer outside the enumeration.
UnnamedTypes == {"unlisted_enumerator", "out_of_enumeration"}

ModuleTypes ==
    {kModuleType_Analog, kModuleType_Digital, kModuleType_Solenoid}
        \cup UnnamedTypes

VARIABLES
    pc,            \* position of the single caller: idle, switch, case, returned
    moduleType,    \* parameter moduleType of the active call
    moduleNumber,  \* parameter moduleNumber of the active call (after conversion)
    arg,           \* the integer the caller supplied for moduleNumber
    branch,        \* the label the switch jumped to
    result,        \* the value returned
    present,       \* slots the caller has seen reported present
    log,           \* HistSpec: completed calls, oldest first
    cpc,           \* ConcSpec: position of each caller
    cargs,         \* ConcSpec: what each caller passed
    cframe,        \* ConcSpec: the activation frames (parameters)
    cbranch,       \* ConcSpec: label each caller's switch jumped to
    cret           \* ConcSpec: value returned to each caller

vars ==
    <<pc, moduleType, moduleNumber, arg, branch, result, present, log,
      cpc, cargs, cframe, cbranch, cret>>

seqVars == <<pc, moduleType, moduleNumber, arg, branch, result, present, log>>

concVars == <<cpc, cargs, cframe, cbranch, cret>>

(* --------------------------- the function ----------------------------- *)

\* Mutant: the parameter declared int8_t (two's complement, sign kept).
ToInt8(a) ==
    IF a % (2 ^ Width) >= 2 ^ (Width - 1)
        THEN (a % (2 ^ Width)) - 2 ^ Width
        ELSE a % (2 ^ Width)

\* Mutant: the parameter declared as a wide unsigned integer (no reduction).
NoReduction(a) == a

\* Conversion of the caller's integer to the uint8_t parameter.
ToUint8(a) == a % (2 ^ Width)

\* Mutant: the default label missing; an unmatched value leaves the switch
\* and control reaches the end of the function.
SwitchNoDefault(t) ==
    CASE t = kModuleType_Analog -> "case kModuleType_Analog"
      [] t = kModuleType_Digital -> "case kModuleType_Digital"
      [] t = kModuleType_Solenoid -> "case kModuleType_Solenoid"
      [] OTHER -> "end of function"

\* switch (moduleType): the label control jumps to.
SwitchTarget(t) ==
    CASE t = kModuleType_Analog -> "case kModuleType_Analog"
      [] t = kModuleType_Digital -> "case kModuleType_Digital"
      [] t = kModuleType_Solenoid -> "case kModuleType_Solenoid"
      [] OTHER -> "default"

\* Mutant: off by one, two analog slots.
AnalogTwoSlots(n) == n <= 1

\* return moduleNumber ==0;
AnalogTest(n) == n = 0

\* Mutant: off by one in the upper bound.
DigitalThreeSlots(n) == n <= 2 /\ n >= 0

\* Mutant: only the second digital slot.
DigitalSecondOnly(n) == n = 1

\* return moduleNumber <= 1 && moduleNumber >= 0;
DigitalTest(n) == n <= 1 /\ n >= 0

\* Mutant: the solenoid module numbered from 1.
SolenoidOneBased(n) == n = 1

\* return moduleNumber == 0;
SolenoidTest(n) == n = 0

\* Mutant: unsupported types reported present.
DefaultPresent == TRUE

\* Mutant: the default branch hands back the value of the previous call
\* (a result kept in static storage and not assigned on this path).
DefaultStale == Len(log) > 0 /\ log[Len(log)].result

\* default: return false;
DefaultResult == FALSE

\* The value of the return statement under label l.
ReturnExpr(l, n) ==
    CASE l = "case kModuleType_Analog" -> AnalogTest(n)
      [] l = "case kModuleType_Digital" -> DigitalTest(n)
      [] l = "case kModuleType_Solenoid" -> SolenoidTest(n)
      [] l = "default" -> DefaultResult

\* One sequential call, start to finish.
getModulePresence(t, n) == ReturnExpr(SwitchTarget(t), n)

(* ------------------------- Spec: one caller --------------------------- *)

ConcInit ==
    /\ cpc = [c \in 1..NumCallers |-> "idle"]
    /\ cargs = [c \in 1..NumCallers |-> [type |-> "none", arg |-> 0]]
    /\ cframe = [c \in 1..NumCallers |-> [moduleType |-> "none", moduleNumber |-> 0]]
    /\ cbranch = [c \in 1..NumCallers |-> "none"]
    /\ cret = [c \in 1..NumCallers |-> "none"]

SeqInit ==
    /\ pc = "idle"
    /\ moduleType = "none"
    /\ moduleNumber = 0
    /\ arg = 0
    /\ branch = "none"
    /\ result = "none"
    /\ present = {}
    /\ log = <<>>

Init == SeqInit /\ ConcInit

\* The caller invokes getModulePresence(t, a): the arguments initialise the
\* parameters, a converted to uint8_t.
Call(t, a) ==
    /\ pc = "idle"
    /\ pc' = "switch"
    /\ moduleType' = t
    /\ arg' = a
    /\ moduleNumber' = ToUint8(a)
    /\ UNCHANGED <<branch, result, present, log>>
    /\ UNCHANGED concVars

\* switch (moduleType)
Switch ==
    /\ pc = "switch"
    /\ branch' = SwitchTarget(moduleType)
    /\ pc' = "case"
    /\ UNCHANGED <<moduleType, moduleNumber, arg, result, present, log>>
    /\ UNCHANGED concVars

ReturnAnalog ==
    /\ pc = "case"
    /\ branch = "case kModuleType_Analog"
    /\ result' = AnalogTest(moduleNumber)
    /\ pc' = "returned"
    /\ UNCHANGED <<moduleType, moduleNumber, arg, branch, present, log>>
    /\ UNCHANGED concVars

ReturnDigital ==
    /\ pc = "case"
    /\ branch = "case kModuleType_Digital"
    /\ result' = DigitalTest(moduleNumber)
    /\ pc' = "returned"
    /\ UNCHANGED <<moduleType, moduleNumber, arg, branch, present, log>>
    /\ UNCHANGED concVars

ReturnSolenoid ==
    /\ pc = "case"
    /\ branch = "case kModuleType_Solenoid"
    /\ result' = SolenoidTest(moduleNumber)
    /\ pc' = "returned"
    /\ UNCHANGED <<moduleType, moduleNumber, arg, branch, present, log>>
    /\ UNCHANGED concVars

ReturnDefault ==
    /\ pc = "case"
    /\ branch = "default"
    /\ result' = DefaultResult
    /\ pc' = "returned"
    /\ UNCHANGED <<moduleType, moduleNumber, arg, branch, present, log>>
    /\ UNCHANGED concVars

\* The steps of the function body.
Body == Switch \/ ReturnAnalog \/ ReturnDigital \/ ReturnSolenoid \/ ReturnDefault

\* The caller takes the result, notes a slot reported present, and the
\* activation ends.
Resume ==
    /\ pc = "returned"
    /\ present' = IF result THEN present \cup {<<moduleType, moduleNumber>>}
                            ELSE present
    /\ pc' = "idle"
    /\ moduleType' = "none"
    /\ moduleNumber' = 0
    /\ arg' = 0
    /\ branch' = "none"
    /\ result' = "none"
    /\ UNCHANGED log
    /\ UNCHANGED concVars

Next ==
    \/ \E t \in ModuleTypes, a \in 0..MaxArg : Call(t, a)
    \/ Switch
    \/ ReturnAnalog
    \/ ReturnDigital
    \/ ReturnSolenoid
    \/ ReturnDefault
    \/ Resume

Spec == Init /\ [][Next]_vars

\* A call that has started runs on: the function's steps are weakly fair.
FairSpec == Init /\ [][Next]_vars /\ WF_vars(Body)

(* ------------------- HistSpec: one caller with a log ------------------ *)

\* As Call, while the log has room.
HistCall(t, a) ==
    /\ Len(log) < MaxCalls
    /\ Call(t, a)

\* The caller takes the result and appends the completed call to its log.
HistResume ==
    /\ pc = "returned"
    /\ log' = Append(log, [moduleType |-> moduleType,
                           moduleNumber |-> moduleNumber,
                           arg |-> arg,
                           result |-> result])
    /\ pc' = "idle"
    /\ moduleType' = "none"
    /\ moduleNumber' = 0
    /\ arg' = 0
    /\ branch' = "none"
    /\ result' = "none"
    /\ UNCHANGED present
    /\ UNCHANGED concVars

HistNext ==
    \/ \E t \in ModuleTypes, a \in 0..MaxHistArg : HistCall(t, a)
    \/ Switch
    \/ ReturnAnalog
    \/ ReturnDigital
    \/ ReturnSolenoid
    \/ ReturnDefault
    \/ HistResume

HistSpec == Init /\ [][HistNext]_vars

(* ------------------- ConcSpec: concurrent callers --------------------- *)

Callers == 1..NumCallers

\* Mutant: the parameters kept in one static object shared by every call.
StaticFrame(c) == 1

\* The parameters are automatic objects: each activation has its own.
FrameOf(c) == c

CCall(c, t, a) ==
    /\ cpc[c] = "idle"
    /\ cargs' = [cargs EXCEPT ![c] = [type |-> t, arg |-> a]]
    /\ cframe' = [cframe EXCEPT ![FrameOf(c)] =
                     [moduleType |-> t, moduleNumber |-> ToUint8(a)]]
    /\ cpc' = [cpc EXCEPT ![c] = "switch"]
    /\ UNCHANGED <<cbranch, cret>>
    /\ UNCHANGED seqVars

CSwitch(c) ==
    /\ cpc[c] = "switch"
    /\ cbranch' = [cbranch EXCEPT ![c] = SwitchTarget(cframe[FrameOf(c)].moduleType)]
    /\ cpc' = [cpc EXCEPT ![c] = "case"]
    /\ UNCHANGED <<cargs, cframe, cret>>
    /\ UNCHANGED seqVars

CReturn(c) ==
    /\ cpc[c] = "case"
    /\ cret' = [cret EXCEPT ![c] =
                   ReturnExpr(cbranch[c], cframe[FrameOf(c)].moduleNumber)]
    /\ cpc' = [cpc EXCEPT ![c] = "returned"]
    /\ UNCHANGED <<cargs, cframe, cbranch>>
    /\ UNCHANGED seqVars

\* The caller takes the result; its activation is gone.
CResume(c) ==
    /\ cpc[c] = "returned"
    /\ cpc' = [cpc EXCEPT ![c] = "idle"]
    /\ cargs' = [cargs EXCEPT ![c] = [type |-> "none", arg |-> 0]]
    /\ cframe' = [cframe EXCEPT ![FrameOf(c)] =
                     [moduleType |-> "none", moduleNumber |-> 0]]
    /\ cbranch' = [cbranch EXCEPT ![c] = "none"]
    /\ cret' = [cret EXCEPT ![c] = "none"]
    /\ UNCHANGED seqVars

ConcNext ==
    \/ \E c \in Callers, t \in ModuleTypes, a \in 0..MaxConcArg : CCall(c, t, a)
    \/ \E c \in Callers : CSwitch(c)
    \/ \E c \in Callers : CReturn(c)
    \/ \E c \in Callers : CResume(c)

ConcSpec == Init /\ [][ConcNext]_vars

(* ------------------------------ claims -------------------------------- *)

NamedTypes == {kModuleType_Analog, kModuleType_Digital, kModuleType_Solenoid}

Labels ==
    {"case kModuleType_Analog", "case kModuleType_Digital",
     "case kModuleType_Solenoid", "default"}

\* The values of the 8-bit parameter.
Uint8 == 0..(2 ^ Width - 1)

\* C1: for every module number n in 0..255, a call for the Digital type
\* returns true iff n is 0 or n is 1 (true for 1, false for 2).
C1_DigitalPresence ==
    (pc = "returned" /\ moduleType = kModuleType_Digital)
        => /\ moduleNumber \in Uint8
           /\ result = (moduleNumber = 0 \/ moduleNumber = 1)

C1_Witness ==
    /\ pc = "returned"
    /\ moduleType = kModuleType_Digital
    /\ moduleNumber = 2
    /\ result = FALSE
    /\ <<kModuleType_Digital, 1>> \in present

\* C2: for every module number n in 0..255, a call for the Analog type
\* returns true iff n is 0 (true for 0, false for 1).
C2_AnalogPresence ==
    (pc = "returned" /\ moduleType = kModuleType_Analog)
        => /\ moduleNumber \in Uint8
           /\ result = (moduleNumber = 0)

C2_Witness ==
    /\ pc = "returned"
    /\ moduleType = kModuleType_Analog
    /\ moduleNumber = 1
    /\ result = FALSE
    /\ <<kModuleType_Analog, 0>> \in present

\* C3: for every module number n in 0..255, a call for the Solenoid type
\* returns true iff n is 0.
C3_SolenoidPresence ==
    (pc = "returned" /\ moduleType = kModuleType_Solenoid)
        => /\ moduleNumber \in Uint8
           /\ result = (moduleNumber = 0)

C3_Witness ==
    /\ pc = "returned"
    /\ moduleType = kModuleType_Solenoid
    /\ moduleNumber = 0
    /\ result = TRUE

\* C4: for every module type other than Analog, Digital and Solenoid (an
\* integer outside the enumeration included) and every module number, the
\* switch takes the default branch and the call returns false; every call
\* returns a boolean, so an unsupported type and an out-of-range number of a
\* supported type give the same false and nothing else.
C4_UnsupportedTypeAbsent ==
    /\ (pc \in {"case", "returned"} /\ moduleType \notin NamedTypes)
           => branch = "default"
    /\ (pc = "returned" /\ moduleType \notin NamedTypes) => result = FALSE
    /\ pc = "returned" => result \in BOOLEAN

C4_Witness ==
    /\ pc = "returned"
    /\ moduleType = "out_of_enumeration"
    /\ moduleNumber = 0
    /\ branch = "default"
    /\ result = FALSE

\* The number a is out of range for type t.
OutOfRange(t, a) ==
    \/ t \in {kModuleType_Analog, kModuleType_Solenoid} /\ a >= 1
    \/ t = kModuleType_Digital /\ a >= 2

\* C5 as stated: for every non-negative integer n the caller supplies,
\* however large (256 and 257 included), the result is false whenever n is
\* out of range for the type.
C5_UnboundedNumber ==
    (pc = "returned" /\ OutOfRange(moduleType, arg)) => result = FALSE

\* C5 amended: the module number is an 8-bit count.  For every n in 0..255
\* the result is false whenever n is out of range for the type; a larger
\* value is reduced modulo 2^8 first, so for a supported type the result is
\* false exactly when n mod 2^8 is out of range (256 is reported like 0).
C5_ReducedNumber ==
    /\ (pc = "returned" /\ arg \in Uint8 /\ OutOfRange(moduleType, arg))
           => result = FALSE
    /\ (pc = "returned" /\ moduleType \in NamedTypes)
           => result = ~OutOfRange(moduleType, arg % (2 ^ Width))

C5_Witness ==
    /\ pc = "returned"
    /\ moduleType = kModuleType_Analog
    /\ arg = 2 ^ Width
    /\ result = TRUE

\* C6: the function is total: the switch always reaches one of its labels,
\* every call that has started reaches a return, and what it returns is a
\* boolean; there is no error state and no path off the end of the function.
C6_Total ==
    /\ [](pc = "case" => branch \in Labels)
    /\ [](pc = "returned" => result \in BOOLEAN)
    /\ (pc = "switch") ~> (pc = "returned")

C6_Witness ==
    /\ pc = "returned"
    /\ moduleType = "unlisted_enumerator"
    /\ moduleNumber = 2 ^ Width - 1
    /\ result \in BOOLEAN

\* C7: in any sequence of calls, two calls with the same (moduleType,
\* moduleNumber) return the same result, whatever calls were made between
\* them: no call changes what a later call returns.
C7_Deterministic ==
    /\ \A i, j \in DOMAIN log :
           (log[i].moduleType = log[j].moduleType
               /\ log[i].moduleNumber = log[j].moduleNumber)
                   => log[i].result = log[j].result
    /\ pc = "returned" =>
           \A i \in DOMAIN log :
               (log[i].moduleType = moduleType
                   /\ log[i].moduleNumber = moduleNumber)
                       => log[i].result = result

C7_Witness ==
    /\ Len(log) = 3
    /\ log[1].moduleType = log[3].moduleType
    /\ log[1].moduleNumber = log[3].moduleNumber
    /\ log[2].moduleType # log[1].moduleType
    /\ log[2].result # log[1].result
    /\ log[3].result = log[1].result

\* C8: with any number of callers interleaved, each caller gets the result
\* a sequential call with its own arguments gives.
C8_ConcurrentAsSequential ==
    \A c \in Callers :
        cpc[c] = "returned"
            => cret[c] = getModulePresence(cargs[c].type, ToUint8(cargs[c].arg))

C8_Witness ==
    /\ cpc[1] = "returned"
    /\ cpc[2] = "returned"
    /\ cargs[1] = [type |-> kModuleType_Digital, arg |-> 1]
    /\ cargs[2] = [type |-> kModuleType_Analog, arg |-> 1]
    /\ cret[1] = TRUE
    /\ cret[2] = FALSE

\* The function with the Digital lower-bound comparison dropped.
WithoutLowerBound(t, n) ==
    CASE t = kModuleType_Analog -> n = 0
      [] t = kModuleType_Digital -> n <= 1
      [] t = kModuleType_Solenoid -> n = 0
      [] OTHER -> FALSE

\* C9: in the Digital branch the test moduleNumber >= 0 is redundant: for
\* every value of the 8-bit parameter the branch returns what
\* moduleNumber <= 1 alone gives, so the function without the lower-bound
\* comparison equals the original on every input.
C9_LowerBoundRedundant ==
    /\ (pc = "returned" /\ branch = "case kModuleType_Digital")
           => result = (moduleNumber <= 1)
    /\ pc = "returned" => result = WithoutLowerBound(moduleType, moduleNumber)

C9_Witness ==
    /\ pc = "returned"
    /\ branch = "case kModuleType_Digital"
    /\ moduleNumber = 2 ^ Width - 1
    /\ result = FALSE

FourSlots ==
    {<<kModuleType_Analog, 0>>, <<kModuleType_Digital, 0>>,
     <<kModuleType_Digital, 1>>, <<kModuleType_Solenoid, 0>>}

\* C10: over all types and all numbers 0..255 the slots reported present
\* are exactly (Analog,0), (Digital,0), (Digital,1), (Solenoid,0), and they
\* are downward closed: no slot is reported absent below a slot of the same
\* type that was reported present.
C10_FourSlotsDownwardClosed ==
    /\ present \subseteq FourSlots
    /\ pc = "returned"
           => (result = (<<moduleType, moduleNumber>> \in FourSlots))
    /\ (pc = "returned" /\ result = FALSE)
           => \A s \in present : ~(s[1] = moduleType /\ s[2] > moduleNumber)

C10_Witness ==
    /\ present = FourSlots
    /\ Cardinality(present) = 4
    /\ pc = "returned"
    /\ moduleType = kModuleType_Digital
    /\ moduleNumber = 2
    /\ result = FALSE

=============================================================================
